---- MODULE Spec2Model ----
(***************************************************************************)
(* Congestion-control and pacing core of neqo-transport:                   *)
(*   resume.rs    CarefulResume state machine (Resume)                     *)
(*   pace.rs      leaky-bucket pacer (Pacer)                               *)
(*   hystartpp.rs slow-start exit detector (HystartPP)                     *)
(* Durations and Instants are natural numbers of one common time unit;     *)
(* byte counts and packet numbers are natural numbers.                     *)
(***************************************************************************)
EXTENDS Integers, Sequences, FiniteSets, TLC

\* Option::None of an Option<usize> / Option<u64> / Option<Instant>
None == -1

(***************************************************************************)
(* Bounds of the model.                                                    *)
(***************************************************************************)
\* Instants passed as `now` (and construction times) range over 0..MaxTime
MaxTime == 2
\* packet numbers range over 0..MaxPn
MaxPn == 1
\* pipesize is not grown beyond MaxPipe (guard on the accumulating on_ack)
MaxPipe == 4
\* the pacer's next_time is not pushed beyond MaxNextTime (guard on spend)
MaxNextTime == 24
\* HyStart++ takes at most MaxSamples RTT samples in one round (guard on on_ack)
MaxSamples == 9

Times == 0..MaxTime
Pns == 0..MaxPn
\* lengths of acknowledged packets
Lens == {1, 2}
\* cwnd arguments handed to CarefulResume
Cwnds == {1, 2}
\* flight sizes: below and not below every cwnd argument
Flights == {0, 2}
\* live RTT samples: below, at and inside the admissible window of the saved
\* RTT, at its upper end and above it
RttSamples == {0, 1, 2, 20, 21}
\* SavedParameters the instance is constructed with
SavedRtts == {2}
SavedCwnds == {4, 7}
\* values of cc.cwnd_initial() handed to on_ack
InitialCwnds == {2, 3}

\* pacer: reference packet sizes, RTTs, windows and byte counts of a spend
PacketSizes == {1, 2}
\* sizes handed to Pacer::new as m and p, and the times it is constructed at:
\* every `now` of a spend, and one RTT later than the earliest of them
NewSizes == {0, 1, 2}
StartTimes == Times \cup {20}
PacerRtts == {0, 20}
PacerCwnds == {0, 10, 20}
PacerCounts == {0, 1, 2, 10}

\* HyStart++: RTT samples, in milliseconds
HystartRtts == {100, 104, 112}
Increases == {0, 3, 8}

VARIABLES
    resume,     \* the Resume struct (resume.rs:63-77)
    rcall,      \* the last call made on it: operation, phase before, app_limited, results
    pacer,      \* the Pacer struct (pace.rs:30-49)
    pcall,      \* the last call made on it, and what is known of the spends so far
    hystart,    \* the HystartPP struct (hystartpp.rs:56-64)
    hcall,      \* the last call made on it
    cc,         \* the congestion-control strategy PacketSender wraps (sender.rs:29)
    scall,      \* the last PacketSender operation
    sent        \* the caller's packets: the next packet number, and the sent
                \* packets not acknowledged yet

resumeVars == <<resume, rcall>>
pacerVars == <<pacer, pcall>>
hystartVars == <<hystart, hcall>>
senderVars == <<cc, scall, sent>>
vars == <<resume, rcall, pacer, pcall, hystart, hcall, cc, scall, sent>>

(***************************************************************************)
(* resume.rs                                                               *)
(***************************************************************************)

\* enum State (resume.rs:17-34); fields a variant does not carry are 0
Reconnaissance(acked_bytes) ==
    [tag |-> "Reconnaissance", acked_bytes |-> acked_bytes, start |-> 0]
Jumping == [tag |-> "Jumping", acked_bytes |-> 0, start |-> 0]
Unvalidated(start) == [tag |-> "Unvalidated", acked_bytes |-> 0, start |-> start]
Validating == [tag |-> "Validating", acked_bytes |-> 0, start |-> 0]
SafeRetreat == [tag |-> "SafeRetreat", acked_bytes |-> 0, start |-> 0]
Normal == [tag |-> "Normal", acked_bytes |-> 0, start |-> 0]

\* impl Default for State
State_default == Reconnaissance(0)

\* impl From<State> for CarefulResumePhase
CarefulResumePhase(state) ==
    CASE state.tag \in {"Reconnaissance", "Jumping"} -> "Reconnaissance"
      [] state.tag = "Unvalidated" -> "Unvalidated"
      [] state.tag = "Validating" -> "Validating"
      [] state.tag = "SafeRetreat" -> "SafeRetreat"
      [] OTHER -> "Normal"

\* Resume::disabled(): every field is its Default
Resume_disabled ==
    [ enabled |-> FALSE,
      state |-> State_default,
      cwnd |-> 0,
      pipesize |-> 0,
      first_unvalidated_pkt |-> 0,
      last_unvalidated_pkt |-> 0,
      ssthresh |-> None,
      saved |-> [rtt |-> 0, cwnd |-> 0, enabled |-> FALSE] ]

\* Resume::with_paramters(saved)
Resume_with_paramters(saved) ==
    [ enabled |-> saved.enabled,
      state |-> State_default,
      cwnd |-> 0,
      pipesize |-> 0,
      first_unvalidated_pkt |-> 0,
      last_unvalidated_pkt |-> 0,
      ssthresh |-> None,
      saved |-> saved ]

\* Instant::saturating_duration_since
saturating_duration_since(now, earlier) == IF now >= earlier THEN now - earlier ELSE 0

\* What a call hands back: the struct after the call, the returned window
\* and threshold, and the records handed to the qlog sink during the call.
Out(r, ret_cwnd, ret_ssthresh, ev) ==
    [r |-> r, ret_cwnd |-> ret_cwnd, ret_ssthresh |-> ret_ssthresh, ev |-> ev]

\* The phase-transition record built by change_state
PhaseUpdated(r, next_state, trigger) ==
    [ old_phase |-> CarefulResumePhase(r.state),
      new_phase |-> CarefulResumePhase(next_state),
      trigger |-> trigger ]

\* Resume::change_state: one record to the sink, then the state is replaced
change_state(r, next_state, trigger) ==
    [ r |-> [r EXCEPT !.state = next_state],
      ev |-> <<PhaseUpdated(r, next_state, trigger)>> ]

\* maybe_jump with the bounds of the RTT window admitted (< for <=)
maybe_jump_inclusive(r, rtt, initial_cwnd) ==
    IF ~(r.state.tag = "Reconnaissance" /\ r.state.acked_bytes >= initial_cwnd)
    THEN Out(r, None, None, <<>>)
    ELSE LET jump_cwnd == r.saved.cwnd \div 2 IN
         IF jump_cwnd <= r.cwnd
         THEN LET c == change_state(r, Normal, "CongestionWindowLimited")
              IN Out(c.r, None, None, c.ev)
         ELSE IF rtt < r.saved.rtt \div 2 \/ r.saved.rtt * 10 < rtt
         THEN LET c == change_state(r, Normal, "RttNotValidated")
              IN Out(c.r, None, None, c.ev)
         ELSE Out([r EXCEPT !.pipesize = r.cwnd, !.cwnd = jump_cwnd, !.state = Jumping],
                  jump_cwnd, None, <<>>)

\* maybe_jump taking the jump window, not the window before it, as pipesize
maybe_jump_pipesize_jumps(r, rtt, initial_cwnd) ==
    IF ~(r.state.tag = "Reconnaissance" /\ r.state.acked_bytes >= initial_cwnd)
    THEN Out(r, None, None, <<>>)
    ELSE LET jump_cwnd == r.saved.cwnd \div 2 IN
         IF jump_cwnd <= r.cwnd
         THEN LET c == change_state(r, Normal, "CongestionWindowLimited")
              IN Out(c.r, None, None, c.ev)
         ELSE IF rtt <= r.saved.rtt \div 2 \/ r.saved.rtt * 10 <= rtt
         THEN LET c == change_state(r, Normal, "RttNotValidated")
              IN Out(c.r, None, None, c.ev)
         ELSE Out([r EXCEPT !.pipesize = jump_cwnd, !.cwnd = jump_cwnd, !.state = Jumping],
                  jump_cwnd, None, <<>>)

\* Resume::maybe_jump
maybe_jump(r, rtt, initial_cwnd) ==
    IF ~(r.state.tag = "Reconnaissance" /\ r.state.acked_bytes >= initial_cwnd)
    THEN Out(r, None, None, <<>>)
    ELSE LET jump_cwnd == r.saved.cwnd \div 2 IN
         IF jump_cwnd <= r.cwnd
         THEN LET c == change_state(r, Normal, "CongestionWindowLimited")
              IN Out(c.r, None, None, c.ev)
         ELSE IF rtt <= r.saved.rtt \div 2 \/ r.saved.rtt * 10 <= rtt
         THEN LET c == change_state(r, Normal, "RttNotValidated")
              IN Out(c.r, None, None, c.ev)
         ELSE Out([r EXCEPT !.pipesize = r.cwnd, !.cwnd = jump_cwnd, !.state = Jumping],
                  jump_cwnd, None, <<>>)

\* Resume::maybe_rtt_exceeded
maybe_rtt_exceeded(r, start, now, rtt, flightsize) ==
    IF saturating_duration_since(now, start) < rtt
    THEN Out(r, None, None, <<>>)
    ELSE LET c == change_state(r, Validating, "RttExceeded")
         IN Out(c.r, flightsize, None, c.ev)

\* Resume::enter_validating
enter_validating(r, flightsize) ==
    IF r.pipesize < flightsize
    THEN LET c == change_state(r, Validating, "FirstUnvalidatedPacketAcknowledged")
         IN Out(c.r, flightsize, None, c.ev)
    ELSE LET c == change_state(r, Normal, "RateLimited")
         IN Out(c.r, r.pipesize, None, c.ev)

\* Resume::on_ack, State::Reconnaissance arm; ack is a SentPacket seen
\* through pn() and len()
on_ack_reconnaissance(r, ack, rtt, initial_cwnd) ==
    maybe_jump([r EXCEPT !.state = Reconnaissance(r.state.acked_bytes + ack.len)],
               rtt, initial_cwnd)

\* Resume::on_ack, State::Unvalidated arm
on_ack_unvalidated(r, ack, rtt, flightsize, now) ==
    LET r1 == [r EXCEPT !.pipesize = @ + ack.len] IN
    IF r1.first_unvalidated_pkt <= ack.pn
    THEN enter_validating(r1, flightsize)
    ELSE maybe_rtt_exceeded(r1, r1.state.start, now, rtt, flightsize)

\* Resume::on_ack, State::Validating arm
on_ack_validating(r, ack) ==
    LET r1 == [r EXCEPT !.pipesize = @ + ack.len] IN
    IF r1.last_unvalidated_pkt <= ack.pn
    THEN LET c == change_state(r1, Normal, "LastUnvalidatedPacketAcknowledged")
         IN Out(c.r, None, None, c.ev)
    ELSE Out(r1, None, None, <<>>)

\* the SafeRetreat arm waiting for a packet beyond the last unvalidated one
\* (<= for <)
on_ack_safe_retreat_off_by_one(r, ack) ==
    LET r1 == [r EXCEPT !.pipesize = @ + ack.len] IN
    IF ack.pn <= r1.last_unvalidated_pkt
    THEN Out(r1, None, None, <<>>)
    ELSE LET r2 == [r1 EXCEPT !.ssthresh = r1.pipesize]
             c == change_state(r2, Normal, "ExitRecovery")
         IN Out(c.r, None, c.r.ssthresh, c.ev)

\* Resume::on_ack, State::SafeRetreat arm
on_ack_safe_retreat(r, ack) ==
    LET r1 == [r EXCEPT !.pipesize = @ + ack.len] IN
    IF ack.pn < r1.last_unvalidated_pkt
    THEN Out(r1, None, None, <<>>)
    ELSE LET r2 == [r1 EXCEPT !.ssthresh = r1.pipesize]
             c == change_state(r2, Normal, "ExitRecovery")
         IN Out(c.r, None, c.r.ssthresh, c.ev)

\* Resume::on_ack
Resume_on_ack(r0, ack, rtt, flightsize, cwnd, initial_cwnd, now) ==
    IF ~r0.enabled THEN Out(r0, None, None, <<>>)
    ELSE
    LET r == [r0 EXCEPT !.cwnd = cwnd] IN
    CASE r.state.tag = "Reconnaissance" -> on_ack_reconnaissance(r, ack, rtt, initial_cwnd)
      [] r.state.tag = "Unvalidated" -> on_ack_unvalidated(r, ack, rtt, flightsize, now)
      [] r.state.tag = "Validating" -> on_ack_validating(r, ack)
      [] r.state.tag = "SafeRetreat" -> on_ack_safe_retreat(r, ack)
      [] OTHER -> Out(r, None, None, <<>>)

\* Resume::on_sent, State::Reconnaissance arm taken for packet number 0: the
\* initial record goes to the sink, with no old phase and no trigger
on_sent_first_packet(r) ==
    Out(r, None, None,
        << [ old_phase |-> "None",
             new_phase |-> CarefulResumePhase(r.state),
             trigger |-> "None" ] >>)

\* Resume::on_sent, State::Jumping arm
on_sent_jumping(r, largest_pkt_sent, now) ==
    LET c == change_state([r EXCEPT !.first_unvalidated_pkt = largest_pkt_sent],
                          Unvalidated(now), "CongestionWindowLimited")
    IN Out(c.r, None, None, c.ev)

\* Resume::on_sent, State::Unvalidated arm
on_sent_unvalidated(r, cwnd, largest_pkt_sent, rtt, flightsize, now) ==
    LET r1 == [r EXCEPT !.last_unvalidated_pkt = largest_pkt_sent] IN
    IF flightsize >= cwnd
    THEN enter_validating(r1, flightsize)
    ELSE maybe_rtt_exceeded(r1, r1.state.start, now, rtt, flightsize)

\* the match with a Reconnaissance arm that attempts the jump on every send
on_sent_match_jumps(r, cwnd, largest_pkt_sent, rtt, flightsize, now) ==
    CASE r.state.tag = "Reconnaissance" -> maybe_jump(r, rtt, cwnd)
      [] r.state.tag = "Jumping" -> on_sent_jumping(r, largest_pkt_sent, now)
      [] r.state.tag = "Unvalidated" ->
           on_sent_unvalidated(r, cwnd, largest_pkt_sent, rtt, flightsize, now)
      [] OTHER -> Out(r, None, None, <<>>)

\* Resume::on_sent, the match on the state
on_sent_match(r, cwnd, largest_pkt_sent, rtt, flightsize, now) ==
    CASE r.state.tag = "Reconnaissance" /\ largest_pkt_sent = 0 -> on_sent_first_packet(r)
      [] r.state.tag = "Jumping" -> on_sent_jumping(r, largest_pkt_sent, now)
      [] r.state.tag = "Unvalidated" ->
           on_sent_unvalidated(r, cwnd, largest_pkt_sent, rtt, flightsize, now)
      [] OTHER -> Out(r, None, None, <<>>)

\* on_sent without the app_limited early return
Resume_on_sent_unlimited(r0, cwnd, largest_pkt_sent, rtt, flightsize, app_limited, now) ==
    IF ~r0.enabled THEN Out(r0, None, None, <<>>)
    ELSE on_sent_match([r0 EXCEPT !.cwnd = cwnd], cwnd, largest_pkt_sent, rtt,
                       flightsize, now)

\* Resume::on_sent
Resume_on_sent(r0, cwnd, largest_pkt_sent, rtt, flightsize, app_limited, now) ==
    IF ~r0.enabled THEN Out(r0, None, None, <<>>)
    ELSE
    LET r == [r0 EXCEPT !.cwnd = cwnd] IN
    IF app_limited THEN Out(r, None, None, <<>>)
    ELSE on_sent_match(r, cwnd, largest_pkt_sent, rtt, flightsize, now)

\* on_congestion retreating from every phase but Reconnaissance
Resume_on_congestion_any_phase(r, trigger) ==
    IF ~r.enabled THEN Out(r, None, None, <<>>)
    ELSE
    CASE r.state.tag = "Reconnaissance" ->
           LET c == change_state(r, Normal, trigger)
           IN Out(c.r, None, None, c.ev)
      [] OTHER ->
           LET c == change_state(r, SafeRetreat, trigger)
           IN Out(c.r, c.r.pipesize \div 2, None, c.ev)

\* on_congestion returning the pipesize itself
Resume_on_congestion_no_halving(r, trigger) ==
    IF ~r.enabled THEN Out(r, None, None, <<>>)
    ELSE
    CASE r.state.tag \in {"Unvalidated", "Validating"} ->
           LET c == change_state(r, SafeRetreat, trigger)
           IN Out(c.r, c.r.pipesize, None, c.ev)
      [] r.state.tag = "Reconnaissance" ->
           LET c == change_state(r, Normal, trigger)
           IN Out(c.r, None, None, c.ev)
      [] OTHER -> Out(r, None, None, <<>>)

\* on_congestion without the enabled check
Resume_on_congestion_unguarded(r, trigger) ==
    CASE r.state.tag \in {"Unvalidated", "Validating"} ->
           LET c == change_state(r, SafeRetreat, trigger)
           IN Out(c.r, c.r.pipesize \div 2, None, c.ev)
      [] r.state.tag = "Reconnaissance" ->
           LET c == change_state(r, Normal, trigger)
           IN Out(c.r, None, None, c.ev)
      [] OTHER -> Out(r, None, None, <<>>)

\* Resume::on_congestion
Resume_on_congestion(r, trigger) ==
    IF ~r.enabled THEN Out(r, None, None, <<>>)
    ELSE
    CASE r.state.tag \in {"Unvalidated", "Validating"} ->
           LET c == change_state(r, SafeRetreat, trigger)
           IN Out(c.r, c.r.pipesize \div 2, None, c.ev)
      [] r.state.tag = "Reconnaissance" ->
           LET c == change_state(r, Normal, trigger)
           IN Out(c.r, None, None, c.ev)
      [] OTHER -> Out(r, None, None, <<>>)

\* Resume::on_ecn
Resume_on_ecn(r) == Resume_on_congestion(r, "EcnCe")

\* Resume::on_packetloss
Resume_on_packetloss(r) == Resume_on_congestion(r, "PacketLoss")


(***************************************************************************)
(* pace.rs                                                                 *)
(***************************************************************************)

\* const PACER_SPEEDUP
PACER_SPEEDUP == 1

\* crate::rtt::GRANULARITY (pace.rs:17), the timer granularity of 1ms; one
\* time unit of the pacer is half a millisecond
GRANULARITY == 2

\* the largest u64: TLC's integers stop at 2^31 - 1, far above every
\* quotient of the model
U64_MAX == 2147483647

Max(a, b) == IF a >= b THEN a ELSE b

\* assert!(m >= p, "maximum capacity has to be at least one packet")
Pacer_new_panics(m, p) == ~(m >= p)

\* Pacer::new(enabled, now, m, p), for arguments that pass the assert
Pacer_new(enabled, now, m, p) ==
    [ enabled |-> enabled,
      last_update |-> now,
      next_time |-> now,
      capacity |-> 10 * p,
      used |-> 0,
      mtu |-> p,
      last_packet_size |-> None,
      iv |-> 0,
      start_time |-> now ]

\* Pacer::set_mtu
Pacer_set_mtu(pc, mtu) == [pc EXCEPT !.mtu = mtu]

\* next() answering with next_time whether pacing is enabled or not
Pacer_next_always_paced(pc, rtt, cwnd) == pc.next_time

\* Pacer::next(_rtt, _cwnd)
Pacer_next(pc, rtt, cwnd) == IF ~pc.enabled THEN pc.last_update ELSE pc.next_time

\* u64::try_from(rtt.as_nanos().saturating_mul(bytes) / (cwnd * PACER_SPEEDUP))
\*     .map(Duration::from_nanos).unwrap_or(rtt), for cwnd > 0
interval(rtt, bytes, cwnd) ==
    LET q == (rtt * bytes) \div (cwnd * PACER_SPEEDUP)
    IN IF q <= U64_MAX THEN q ELSE rtt

\* the pending interval counted from `now`, whatever next_time was
spend_pending_from_now(pc, now) ==
    IF pc.iv # 0
    THEN [pc EXCEPT !.next_time = now + pc.iv, !.iv = 0]
    ELSE pc

\* Pacer::spend up to the first division: the pending interval is applied
spend_pending(pc, now) ==
    IF pc.iv # 0
    THEN [pc EXCEPT !.next_time = Max(pc.next_time, now) + pc.iv, !.iv = 0]
    ELSE pc

\* the u128 division by cwnd * PACER_SPEEDUP panics when the divisor is 0
spend_panics(pc, cwnd) == pc.enabled /\ cwnd * PACER_SPEEDUP = 0

\* Pacer::spend(now, rtt, cwnd, count), for a call that does not panic
Pacer_spend(pc, now, rtt, cwnd, count) ==
    IF ~pc.enabled THEN [pc EXCEPT !.last_update = now]
    ELSE
    LET p1 == spend_pending(pc, now)
        cwnd_interval == interval(rtt, p1.capacity, cwnd)
        elapsed == saturating_duration_since(now, p1.last_update)
        p2 == IF elapsed > cwnd_interval
              THEN [p1 EXCEPT !.used = 0, !.last_update = now,
                              !.next_time = Max(p1.next_time, now),
                              !.last_packet_size = None, !.iv = 0]
              ELSE p1
        p3 == [p2 EXCEPT !.used = @ + count]
        same_size == p3.last_packet_size = None \/ p3.last_packet_size = count
        p4 == [p3 EXCEPT !.last_packet_size = count]
    IN IF p4.used >= p4.capacity \/ ~same_size
       THEN [p4 EXCEPT !.iv = interval(rtt, p4.used, cwnd), !.used = 0,
                       !.last_update = now, !.last_packet_size = None]
       ELSE p4

(***************************************************************************)
(* hystartpp.rs                                                            *)
(***************************************************************************)

\* Duration::MAX, the "no sample yet" value of the round minimums
Duration_MAX == 1000
\* const MIN_RTT_THRESH, MAX_RTT_THRESH (milliseconds)
MIN_RTT_THRESH == 4
MAX_RTT_THRESH == 16
MIN_RTT_DIVISOR == 8
N_RTT_SAMPLE == 8
CSS_GROWTH_DIVISOR == 4
CSS_ROUNDS == 5

Min(a, b) == IF a <= b THEN a ELSE b

\* Ord::clamp
clamp(x, lo, hi) == IF x < lo THEN lo ELSE IF x > hi THEN hi ELSE x

\* Duration::saturating_add
saturating_add(a, b) == Min(a + b, Duration_MAX)

\* enum State (hystartpp.rs:33-42)
SlowStart == [tag |-> "SlowStart", baseline_min_rtt |-> 0, rounds |-> 0]
CSS(baseline_min_rtt, rounds) ==
    [tag |-> "CSS", baseline_min_rtt |-> baseline_min_rtt, rounds |-> rounds]
CongestionAvoidance == [tag |-> "CongestionAvoidance", baseline_min_rtt |-> 0, rounds |-> 0]

\* HystartPP::disabled(): Self::default()
HystartPP_disabled ==
    [ enabled |-> FALSE,
      state |-> SlowStart,
      last_round_min_rtt |-> 0,
      current_round_min_rtt |-> 0,
      rtt_sample_count |-> 0,
      window_end |-> None ]

\* HystartPP::new()
HystartPP_new ==
    [ enabled |-> TRUE,
      state |-> SlowStart,
      last_round_min_rtt |-> Duration_MAX,
      current_round_min_rtt |-> Duration_MAX,
      rtt_sample_count |-> 0,
      window_end |-> None ]

\* HystartPP::on_sent
HystartPP_on_sent(h, pkt_num) ==
    IF ~h.enabled \/ h.window_end # None THEN h
    ELSE [h EXCEPT !.window_end = pkt_num,
                   !.last_round_min_rtt = h.current_round_min_rtt,
                   !.current_round_min_rtt = Duration_MAX,
                   !.rtt_sample_count = 0]

\* self.window_end.is_some_and(|end_pkt| end_pkt <= ack.pn())
round_finished(h, ack_pn) == h.window_end # None /\ h.window_end <= ack_pn

\* the delay-increase test of the SlowStart arm, with the phase it leads to
slow_start_exit(h1) ==
    IF /\ h1.rtt_sample_count >= N_RTT_SAMPLE
       /\ h1.current_round_min_rtt # Duration_MAX
       /\ h1.last_round_min_rtt # Duration_MAX
    THEN LET rtt_thresh == clamp(h1.last_round_min_rtt \div MIN_RTT_DIVISOR,
                                 MIN_RTT_THRESH, MAX_RTT_THRESH)
         IN IF h1.current_round_min_rtt
                 >= saturating_add(h1.last_round_min_rtt, rtt_thresh)
            THEN [h1 EXCEPT !.state =
                     CSS(h1.current_round_min_rtt,
                         IF h1.window_end # None THEN 1 ELSE 0)]
            ELSE h1
    ELSE h1

\* the SlowStart arm testing for a delay increase before it closes the round
on_ack_slow_start_late_close(h, ack_pn) ==
    LET h1 == slow_start_exit(h)
    IN IF round_finished(h1, ack_pn) THEN [h1 EXCEPT !.window_end = None] ELSE h1

\* HystartPP::on_ack, State::SlowStart arm
on_ack_slow_start(h, ack_pn) ==
    LET h1 == IF round_finished(h, ack_pn) THEN [h EXCEPT !.window_end = None] ELSE h
    IN slow_start_exit(h1)

\* the CSS arm leaving for congestion avoidance one round late
on_ack_css_one_more_round(h, ack_pn) ==
    LET baseline_min_rtt == h.state.baseline_min_rtt
        h1 == IF /\ h.rtt_sample_count >= N_RTT_SAMPLE
                 /\ h.current_round_min_rtt < baseline_min_rtt
              THEN [h EXCEPT !.state = SlowStart]
              ELSE h
    IN IF round_finished(h1, ack_pn)
       THEN LET rounds == h.state.rounds + 1
            IN [h1 EXCEPT !.window_end = None,
                          !.state = IF rounds > CSS_ROUNDS
                                    THEN CongestionAvoidance
                                    ELSE CSS(baseline_min_rtt, rounds)]
       ELSE h1

\* HystartPP::on_ack, State::CSS arm
on_ack_css(h, ack_pn) ==
    LET baseline_min_rtt == h.state.baseline_min_rtt
        h1 == IF /\ h.rtt_sample_count >= N_RTT_SAMPLE
                 /\ h.current_round_min_rtt < baseline_min_rtt
              THEN [h EXCEPT !.state = SlowStart]
              ELSE h
    IN IF round_finished(h1, ack_pn)
       THEN LET rounds == h.state.rounds + 1
            IN [h1 EXCEPT !.window_end = None,
                          !.state = IF rounds >= CSS_ROUNDS
                                    THEN CongestionAvoidance
                                    ELSE CSS(baseline_min_rtt, rounds)]
       ELSE h1

\* HystartPP::on_ack
HystartPP_on_ack(h0, ack_pn, rtt) ==
    IF ~h0.enabled THEN h0
    ELSE
    LET h == [h0 EXCEPT !.rtt_sample_count = @ + 1,
                        !.current_round_min_rtt = Min(@, rtt)]
    IN
    CASE h.state.tag = "SlowStart" -> on_ack_slow_start(h, ack_pn)
      [] h.state.tag = "CSS" -> on_ack_css(h, ack_pn)
      [] OTHER -> h

\* on_congestion ending slow start only, a conservative slow start goes on
HystartPP_on_congestion_keeps_css(h) ==
    IF ~h.enabled \/ h.state.tag = "CSS" THEN h ELSE [h EXCEPT !.state = CongestionAvoidance]

\* HystartPP::on_congestion
HystartPP_on_congestion(h) ==
    IF ~h.enabled THEN h ELSE [h EXCEPT !.state = CongestionAvoidance]

\* cwnd_increase damping in every phase but CongestionAvoidance
HystartPP_cwnd_increase_damps_slow_start(h, increase, max_datagram_size) ==
    IF ~h.enabled THEN increase
    ELSE IF h.state.tag # "CongestionAvoidance" THEN increase \div CSS_GROWTH_DIVISOR
    ELSE increase

\* HystartPP::cwnd_increase
HystartPP_cwnd_increase(h, increase, max_datagram_size) ==
    IF ~h.enabled THEN increase
    ELSE IF h.state.tag = "CSS" THEN increase \div CSS_GROWTH_DIVISOR
    ELSE increase

(***************************************************************************)
(* sender.rs: PacketSender, which wraps a congestion-control strategy      *)
(* (crate::cc, a trait object), a Pacer and a Resume.  Of the strategy     *)
(* only what PacketSender reads and sets is modelled: its window, its      *)
(* threshold, its bytes in flight, its initial window and the packet size  *)
(* of its path-MTU discovery.  What its own event handlers do to these is  *)
(* not decided here: a handler may leave any window and flight size.       *)
(***************************************************************************)

\* windows and flight sizes the strategy's handlers may leave, its initial
\* window, and what PacketSender is called with
CcCwnds == {1}
CcFlights == {0, 3}
CcInitialCwnds == {1}
SenderNows == {0, 2}
SenderRtts == {2}
SenderMtus == {1, 2}
SenderPns == {0, 1, 2}
SenderPackets == [pn : SenderPns, len : {1}]
\* the parameters saved from an earlier connection, when there are any
SenderSaved == [rtt |-> 2, cwnd |-> 4, enabled |-> TRUE]
\* batches of acknowledged packets, out of the packets awaiting one: none,
\* one, or two in packet-number order
AckBatches(unacked) ==
    LET pkts == {a \in SenderPackets : a.pn \in unacked}
    IN {<<>>} \cup {<<a>> : a \in pkts} \cup {q \in pkts \X pkts : q[1].pn < q[2].pn}
\* the packet numbers of a batch
BatchPns(acked_pkts) == {acked_pkts[i].pn : i \in DOMAIN acked_pkts}

\* the strategy as constructed: cwnd() is cwnd_initial(), nothing in flight
CC_new(cwnd_initial, plpmtu) ==
    [ cwnd |-> cwnd_initial, ssthresh |-> None, bytes_in_flight |-> 0,
      cwnd_initial |-> cwnd_initial, plpmtu |-> plpmtu ]
\* CongestionControl::set_cwnd / set_ssthresh
cc_set_cwnd(c, cwnd) == [c EXCEPT !.cwnd = cwnd]
cc_set_ssthresh(c, ssthresh) == [c EXCEPT !.ssthresh = ssthresh]
\* one of the strategy's own handlers ran and left this window and flight size
cc_handled(c, after) ==
    [c EXCEPT !.cwnd = after.cwnd, !.bytes_in_flight = after.bytes_in_flight]
\* what a handler of the strategy may leave
CcAfter(c) == [cwnd : CcCwnds \cup {c.cwnd}, bytes_in_flight : CcFlights]
\* Pmtud::on_packets_acked / on_packets_lost may revise the packet size
pmtud_handled(c, plpmtu) == [c EXCEPT !.plpmtu = plpmtu]

\* one call PacketSender makes on a part; arg is the flight size handed to
\* CarefulResume or the byte count handed to the pacer
Call(call, pn, cwnd, arg, ret_cwnd, ret_ssthresh) ==
    [ call |-> call, pn |-> pn, cwnd |-> cwnd, arg |-> arg,
      ret_cwnd |-> ret_cwnd, ret_ssthresh |-> ret_ssthresh ]
Logged(st, call) == [st EXCEPT !.log = Append(@, call)]

\* PacketSender's fields during one of its operations, with the calls made so
\* far and the value returned; panicked: a pacer spend divided by zero and
\* the operation unwound
Sender(r, pc, c) ==
    [resume |-> r, pacer |-> pc, cc |-> c, log |-> <<>>, panicked |-> FALSE, ret |-> None]

\* self.pacer.spend(now, rtt, cwnd, count)
sender_spend(st, now, rtt, cwnd, count) ==
    IF spend_panics(st.pacer, cwnd)
    THEN [Logged(st, Call("panic", None, cwnd, count, None, None))
            EXCEPT !.pacer = spend_pending(st.pacer, now), !.panicked = TRUE]
    ELSE [Logged(st, Call("pacer.spend", None, cwnd, count, None, None))
            EXCEPT !.pacer = Pacer_spend(st.pacer, now, rtt, cwnd, count)]

\* self.cc.set_cwnd(next_cwnd, now)
sender_set_cwnd(st, next_cwnd) ==
    [Logged(st, Call("cc.set_cwnd", None, next_cwnd, None, None, None))
       EXCEPT !.cc = cc_set_cwnd(st.cc, next_cwnd)]

\* PacketSender::maybe_update_pacer_mtu
maybe_update_pacer_mtu(st) ==
    IF st.cc.plpmtu # st.pacer.mtu
    THEN [Logged(st, Call("pacer.set_mtu", None, None, st.cc.plpmtu, None, None))
            EXCEPT !.pacer = Pacer_set_mtu(st.pacer, st.cc.plpmtu)]
    ELSE st

\* the body of the loop `for ack in acked_pkts` of on_packets_acked
acked_one(st, ack, rtt, now) ==
    LET out == Resume_on_ack(st.resume, ack, rtt, st.cc.bytes_in_flight, st.cc.cwnd,
                             st.cc.cwnd_initial, now)
        s1 == [Logged(st, Call("resume.on_ack", ack.pn, st.cc.cwnd, st.cc.bytes_in_flight,
                               out.ret_cwnd, out.ret_ssthresh))
                 EXCEPT !.resume = out.r]
        s2 == IF out.ret_cwnd # None
              THEN sender_spend(sender_set_cwnd(s1, out.ret_cwnd), now, rtt, out.ret_cwnd, 0)
              ELSE s1
    IN IF ~s2.panicked /\ out.ret_ssthresh # None
       THEN [Logged(s2, Call("cc.set_ssthresh", None, None, out.ret_ssthresh, None, None))
               EXCEPT !.cc = cc_set_ssthresh(s2.cc, out.ret_ssthresh)]
       ELSE s2

RECURSIVE acked_loop(_, _, _, _)
acked_loop(st, acked_pkts, rtt, now) ==
    IF acked_pkts = <<>> \/ st.panicked THEN st
    ELSE acked_loop(acked_one(st, Head(acked_pkts), rtt, now), Tail(acked_pkts), rtt, now)

\* PacketSender::on_packets_acked; after, plpmtu: what the strategy's and the
\* path-MTU discovery's own handlers leave
PacketSender_on_packets_acked(st, acked_pkts, rtt, now, after, plpmtu) ==
    LET s1 == acked_loop(st, acked_pkts, rtt, now)
        s2 == [Logged(s1, Call("cc.on_packets_acked", None, None, None, None, None))
                 EXCEPT !.cc = cc_handled(s1.cc, after)]
        s3 == [Logged(s2, Call("pmtud.on_packets_acked", None, None, None, None, None))
                 EXCEPT !.cc = pmtud_handled(s2.cc, plpmtu)]
    IN IF s1.panicked THEN s1 ELSE maybe_update_pacer_mtu(s3)

\* on_packets_lost asking CarefulResume whether or not the strategy reduced
\* its window
PacketSender_on_packets_lost_unasked(st, reduced, after, plpmtu) ==
    LET s1 == [Logged(st, Call("cc.on_packets_lost", None, None, None, None, None))
                 EXCEPT !.cc = cc_handled(st.cc, after)]
        out == Resume_on_packetloss(s1.resume)
        s2 == [Logged(s1, Call("resume.on_packetloss", None, None, None, out.ret_cwnd, None))
                 EXCEPT !.resume = out.r]
        s3 == IF out.ret_cwnd # None THEN sender_set_cwnd(s2, out.ret_cwnd) ELSE s2
        s4 == [Logged(s3, Call("pmtud.on_packets_lost", None, None, None, None, None))
                 EXCEPT !.cc = pmtud_handled(s3.cc, plpmtu)]
    IN [maybe_update_pacer_mtu(s4) EXCEPT !.ret = reduced]

\* PacketSender::on_packets_lost; reduced: what cc.on_packets_lost returns
PacketSender_on_packets_lost(st, reduced, after, plpmtu) ==
    LET s1 == [Logged(st, Call("cc.on_packets_lost", None, None, None, None, None))
                 EXCEPT !.cc = cc_handled(st.cc, after)]
        out == Resume_on_packetloss(s1.resume)
        s2 == IF reduced
              THEN [Logged(s1, Call("resume.on_packetloss", None, None, None,
                                    out.ret_cwnd, None))
                      EXCEPT !.resume = out.r]
              ELSE s1
        s3 == IF reduced /\ out.ret_cwnd # None
              THEN sender_set_cwnd(s2, out.ret_cwnd)
              ELSE s2
        s4 == [Logged(s3, Call("pmtud.on_packets_lost", None, None, None, None, None))
                 EXCEPT !.cc = pmtud_handled(s3.cc, plpmtu)]
    IN [maybe_update_pacer_mtu(s4) EXCEPT !.ret = reduced]

\* PacketSender::on_ecn_ce_received; reduced: what cc.on_ecn_ce_received returns
PacketSender_on_ecn_ce_received(st, reduced, after) ==
    LET out == Resume_on_ecn(st.resume)
        s1 == [Logged(st, Call("resume.on_ecn", None, None, None, out.ret_cwnd, None))
                 EXCEPT !.resume = out.r]
        s2 == IF out.ret_cwnd # None THEN sender_set_cwnd(s1, out.ret_cwnd) ELSE s1
    IN [Logged(s2, Call("cc.on_ecn_ce_received", None, None, None, None, None))
          EXCEPT !.cc = cc_handled(s2.cc, after), !.ret = reduced]

\* PacketSender::on_packet_sent
PacketSender_on_packet_sent(st, pkt, rtt, now, after) ==
    LET s1 == IF pkt.ack_eliciting
              THEN sender_spend(st, pkt.time_sent, rtt, st.cc.cwnd, pkt.len)
              ELSE st
        s2 == [Logged(s1, Call("cc.on_packet_sent", pkt.pn, None, None, None, None))
                 EXCEPT !.cc = cc_handled(s1.cc, after)]
        out == Resume_on_sent(s2.resume, s2.cc.cwnd, pkt.pn, rtt, s2.cc.bytes_in_flight,
                              FALSE, now)
        s3 == [Logged(s2, Call("resume.on_sent", pkt.pn, s2.cc.cwnd, s2.cc.bytes_in_flight,
                               out.ret_cwnd, None))
                 EXCEPT !.resume = out.r]
    IN IF s1.panicked THEN s1
       ELSE IF out.ret_cwnd # None THEN sender_set_cwnd(s3, out.ret_cwnd)
       ELSE s3

(***************************************************************************)
(* The three components driven by their caller.  Every call draws its      *)
(* arguments from the sets above; rcall, pcall and hcall keep what the     *)
(* last call was and what it returned.                                     *)
(***************************************************************************)

RCall(op, old, app_limited, out) ==
    [ op |-> op, old |-> old, app_limited |-> app_limited,
      ret_cwnd |-> out.ret_cwnd, ret_ssthresh |-> out.ret_ssthresh, ev |-> out.ev ]

\* PacketSender::new: Resume::disabled() without saved parameters, else
\* Resume::with_paramters
InitResume ==
    /\ \/ resume = Resume_disabled
       \/ \E rtt \in SavedRtts, cwnd \in SavedCwnds, enabled \in BOOLEAN :
            resume = Resume_with_paramters([rtt |-> rtt, cwnd |-> cwnd, enabled |-> enabled])
    /\ rcall = RCall("new", "None", FALSE, Out(resume, None, None, <<>>))

OnAck ==
    /\ \E pn \in Pns, len \in Lens, rtt \in RttSamples, flightsize \in Flights,
          cwnd \in Cwnds, initial_cwnd \in InitialCwnds, now \in Times :
         LET out == Resume_on_ack(resume, [pn |-> pn, len |-> len], rtt, flightsize,
                                  cwnd, initial_cwnd, now)
         IN /\ out.r.pipesize <= MaxPipe
            /\ resume' = out.r
            /\ rcall' = RCall("on_ack", resume.state.tag, FALSE, out)
    /\ UNCHANGED <<pacerVars, hystartVars, senderVars>>

OnSent ==
    /\ \E cwnd \in Cwnds, pn \in Pns, rtt \in RttSamples, flightsize \in Flights,
          app_limited \in BOOLEAN, now \in Times :
         LET out == Resume_on_sent(resume, cwnd, pn, rtt, flightsize, app_limited, now)
         IN /\ resume' = out.r
            /\ rcall' = RCall("on_sent", resume.state.tag, app_limited, out)
    /\ UNCHANGED <<pacerVars, hystartVars, senderVars>>

OnEcn ==
    /\ LET out == Resume_on_ecn(resume)
       IN /\ resume' = out.r
          /\ rcall' = RCall("on_ecn", resume.state.tag, FALSE, out)
    /\ UNCHANGED <<pacerVars, hystartVars, senderVars>>

OnPacketLoss ==
    /\ LET out == Resume_on_packetloss(resume)
       IN /\ resume' = out.r
          /\ rcall' = RCall("on_packetloss", resume.state.tag, FALSE, out)
    /\ UNCHANGED <<pacerVars, hystartVars, senderVars>>

\* CarefulResume driven by a caller that numbers its packets in order: on_sent
\* is called with the next packet number, on_ack with a packet that was sent
\* and not acknowledged before
OnSentInOrder ==
    /\ sent.next_pn \in SenderPns
    /\ \E cwnd \in Cwnds, rtt \in RttSamples, flightsize \in Flights,
          app_limited \in BOOLEAN, now \in Times :
         LET out == Resume_on_sent(resume, cwnd, sent.next_pn, rtt, flightsize,
                                   app_limited, now)
         IN /\ resume' = out.r
            /\ rcall' = RCall("on_sent", resume.state.tag, app_limited, out)
    /\ sent' = [next_pn |-> sent.next_pn + 1, unacked |-> sent.unacked \cup {sent.next_pn}]
    /\ UNCHANGED <<pacerVars, hystartVars, cc, scall>>

OnAckInOrder ==
    /\ \E pn \in sent.unacked, len \in Lens, rtt \in RttSamples, flightsize \in Flights,
          cwnd \in Cwnds, initial_cwnd \in InitialCwnds, now \in Times :
         LET out == Resume_on_ack(resume, [pn |-> pn, len |-> len], rtt, flightsize,
                                  cwnd, initial_cwnd, now)
         IN /\ out.r.pipesize <= MaxPipe
            /\ resume' = out.r
            /\ rcall' = RCall("on_ack", resume.state.tag, FALSE, out)
            /\ sent' = [sent EXCEPT !.unacked = @ \ {pn}]
    /\ UNCHANGED <<pacerVars, hystartVars, cc, scall>>

\* The pacer.  next() is a query without effect (Pacer_next); pcall keeps
\* what the claims need of the history of spends: whether a spend panicked,
\* and the smallest `now` handed to spend so far.  back is set by SpendEnabled
\* alone: the latest spend was a zero-byte one, at a `now` earlier than that of
\* a spend before it, and it moved next_time.
PCall(panicked, min_now) == [panicked |-> panicked, min_now |-> min_now, back |-> FALSE]

InitPacer ==
    /\ \E enabled \in BOOLEAN, now \in StartTimes, p \in NewSizes, m \in NewSizes :
         /\ ~Pacer_new_panics(m, p)
         /\ pacer = Pacer_new(enabled, now, m, p)
    /\ pcall = PCall(FALSE, None)

Spend ==
    /\ ~pcall.panicked
    /\ \E now \in Times, rtt \in PacerRtts, cwnd \in PacerCwnds, count \in PacerCounts :
         LET min_now == IF pcall.min_now = None THEN now ELSE Min(pcall.min_now, now)
         IN IF spend_panics(pacer, cwnd)
            THEN /\ pacer' = spend_pending(pacer, now)
                 /\ pcall' = PCall(TRUE, min_now)
            ELSE LET p == Pacer_spend(pacer, now, rtt, cwnd, count)
                 IN /\ p.next_time <= MaxNextTime
                    /\ pacer' = p
                    /\ pcall' = PCall(FALSE, min_now)
    /\ UNCHANGED <<resumeVars, hystartVars, senderVars>>

SetMtu ==
    /\ ~pcall.panicked
    /\ \E mtu \in PacketSizes :
         /\ pacer' = Pacer_set_mtu(pacer, mtu)
         /\ pcall' = pcall
    /\ UNCHANGED <<resumeVars, hystartVars, senderVars>>

\* an enabled pacer, as Pacer::new(true, now, m, p) leaves it
InitPacerEnabled ==
    /\ \E now \in StartTimes, p \in NewSizes, m \in NewSizes :
         /\ ~Pacer_new_panics(m, p)
         /\ pacer = Pacer_new(TRUE, now, m, p)
    /\ pcall = PCall(FALSE, None)

\* Pacer::spend with cwnd > 0 on an enabled pacer.  last_update is written by
\* spend only, with its `now`: once it differs from start_time it is the `now`
\* of a spend already made.
SpendEnabled ==
    /\ pacer.enabled
    /\ \E now \in Times, rtt \in PacerRtts, cwnd \in PacerCwnds \ {0}, count \in PacerCounts :
         LET min_now == IF pcall.min_now = None THEN now ELSE Min(pcall.min_now, now)
             p == Pacer_spend(pacer, now, rtt, cwnd, count)
             earlier == pacer.last_update # pacer.start_time /\ now < pacer.last_update
         IN /\ p.next_time <= MaxNextTime
            /\ pacer' = p
            /\ pcall' = [PCall(FALSE, min_now) EXCEPT
                           !.back = earlier /\ count = 0 /\ p.next_time > pacer.next_time]
    /\ UNCHANGED <<resumeVars, hystartVars, senderVars>>

\* The slow-start exit detector.
HCall(op, old, pn, rtt, increase, ret) ==
    [op |-> op, old |-> old, pn |-> pn, rtt |-> rtt, increase |-> increase, ret |-> ret]

InitHystart ==
    /\ hystart \in {HystartPP_disabled, HystartPP_new}
    /\ hcall = HCall("new", "None", 0, 0, 0, None)

HystartOnSent ==
    /\ \E pn \in Pns :
         /\ hystart' = HystartPP_on_sent(hystart, pn)
         /\ hcall' = HCall("on_sent", hystart.state.tag, pn, 0, 0, None)
    /\ UNCHANGED <<resumeVars, pacerVars, senderVars>>

HystartOnAck ==
    /\ \E pn \in Pns, rtt \in HystartRtts :
         LET h == HystartPP_on_ack(hystart, pn, rtt)
         IN /\ h.rtt_sample_count <= MaxSamples
            /\ hystart' = h
            /\ hcall' = HCall("on_ack", hystart.state.tag, pn, rtt, 0, None)
    /\ UNCHANGED <<resumeVars, pacerVars, senderVars>>

HystartOnCongestion ==
    /\ hystart' = HystartPP_on_congestion(hystart)
    /\ hcall' = HCall("on_congestion", hystart.state.tag, 0, 0, 0, None)
    /\ UNCHANGED <<resumeVars, pacerVars, senderVars>>

HystartCwndIncrease ==
    /\ \E increase \in Increases, max_datagram_size \in PacketSizes :
         /\ hystart' = hystart
         /\ hcall' = HCall("cwnd_increase", hystart.state.tag, 0, 0, increase,
                           HystartPP_cwnd_increase(hystart, increase, max_datagram_size))
    /\ UNCHANGED <<resumeVars, pacerVars, senderVars>>

\* PacketSender.  scall keeps the last operation, CarefulResume's phase
\* before it, whether it panicked, and what it returned.
SCall(op, old, st) == [op |-> op, old |-> old, panicked |-> st.panicked, ret |-> st.ret]

\* PacketSender::new: the strategy, Pacer::new(pacing_enabled, now, mtu) and
\* the Resume made from the saved parameters, if any
InitSender ==
    /\ resume \in {Resume_disabled, Resume_with_paramters(SenderSaved)}
    /\ rcall = RCall("new", "None", FALSE, Out(resume, None, None, <<>>))
    /\ \E pacing_enabled \in BOOLEAN, cwnd_initial \in CcInitialCwnds :
         /\ pacer = Pacer_new(pacing_enabled, 0, 1, 1)
         /\ cc = CC_new(cwnd_initial, 1)
    /\ pcall = PCall(FALSE, None)
    /\ scall = SCall("new", "None", Sender(resume, pacer, cc))
    /\ sent = [next_pn |-> 0, unacked |-> {}]

\* the operation ran: its effects on the three parts, within the bounds
SenderDone(op, st) ==
    /\ st.resume.pipesize <= MaxPipe
    /\ st.pacer.next_time <= MaxNextTime
    /\ resume' = st.resume
    /\ pacer' = st.pacer
    /\ cc' = st.cc
    /\ scall' = SCall(op, resume.state.tag, st)
    /\ UNCHANGED <<rcall, pcall, hystartVars>>

SenderOnPacketsAcked ==
    /\ ~scall.panicked
    /\ \E acked_pkts \in AckBatches(sent.unacked), rtt \in SenderRtts, now \in SenderNows,
          after \in CcAfter(cc), plpmtu \in SenderMtus :
         /\ SenderDone("on_packets_acked",
                       PacketSender_on_packets_acked(Sender(resume, pacer, cc), acked_pkts,
                                                     rtt, now, after, plpmtu))
         /\ sent' = [sent EXCEPT !.unacked = @ \ BatchPns(acked_pkts)]

SenderOnPacketsLost ==
    /\ ~scall.panicked
    /\ \E reduced \in BOOLEAN, after \in CcAfter(cc), plpmtu \in SenderMtus :
         /\ SenderDone("on_packets_lost",
                       PacketSender_on_packets_lost(Sender(resume, pacer, cc), reduced,
                                                    after, plpmtu))
         /\ UNCHANGED sent

SenderOnEcnCeReceived ==
    /\ ~scall.panicked
    /\ \E reduced \in BOOLEAN, after \in CcAfter(cc) :
         /\ SenderDone("on_ecn_ce_received",
                       PacketSender_on_ecn_ce_received(Sender(resume, pacer, cc), reduced,
                                                       after))
         /\ UNCHANGED sent

SenderOnPacketSent ==
    /\ ~scall.panicked
    /\ sent.next_pn \in SenderPns
    /\ \E ack_eliciting \in BOOLEAN, rtt \in SenderRtts, now \in SenderNows,
          after \in CcAfter(cc) :
         SenderDone("on_packet_sent",
                    PacketSender_on_packet_sent(
                        Sender(resume, pacer, cc),
                        [pn |-> sent.next_pn, len |-> 1, ack_eliciting |-> ack_eliciting,
                         time_sent |-> now],
                        rtt, now, after))
    /\ sent' = [next_pn |-> sent.next_pn + 1, unacked |-> sent.unacked \cup {sent.next_pn}]

\* a component the specification at hand does not drive stays as constructed
IdleSender ==
    /\ cc = CC_new(2, 1)
    /\ scall = SCall("new", "None", Sender(resume, pacer, cc))
    /\ sent = [next_pn |-> 0, unacked |-> {}]
IdleResume ==
    /\ resume = Resume_disabled
    /\ rcall = RCall("new", "None", FALSE, Out(resume, None, None, <<>>))
IdlePacer ==
    /\ pacer = Pacer_new(FALSE, 0, 1, 1)
    /\ pcall = PCall(FALSE, None)
IdleHystart ==
    /\ hystart = HystartPP_disabled
    /\ hcall = HCall("new", "None", 0, 0, 0, None)

NextResume == OnAck \/ OnSent \/ OnEcn \/ OnPacketLoss
NextResumeInOrder == OnAckInOrder \/ OnSentInOrder \/ OnEcn \/ OnPacketLoss
NextPacer == Spend \/ SetMtu
NextHystart == HystartOnSent \/ HystartOnAck \/ HystartOnCongestion \/ HystartCwndIncrease
NextSender ==
    SenderOnPacketsAcked \/ SenderOnPacketsLost \/ SenderOnEcnCeReceived \/ SenderOnPacketSent

\* CarefulResume alone
InitSpecResume == InitResume /\ IdlePacer /\ IdleHystart /\ IdleSender
SpecResume == InitSpecResume /\ [][NextResume]_vars
\* CarefulResume alone, its caller numbering the packets in order
SpecResumeInOrder == InitSpecResume /\ [][NextResumeInOrder]_vars
\* the pacer alone
InitSpecPacer == IdleResume /\ InitPacer /\ IdleHystart /\ IdleSender
SpecPacer == InitSpecPacer /\ [][NextPacer]_vars
\* an enabled pacer under spends that do not divide by zero
InitSpecPacerEnabled == IdleResume /\ InitPacerEnabled /\ IdleHystart /\ IdleSender
SpecPacerEnabled == InitSpecPacerEnabled /\ [][SpendEnabled]_vars
\* the slow-start exit detector alone
InitSpecHystart == IdleResume /\ IdlePacer /\ InitHystart /\ IdleSender
SpecHystart == InitSpecHystart /\ [][NextHystart]_vars

\* PacketSender with its strategy, its pacer and its CarefulResume
InitSpecSender == InitSender /\ IdleHystart
SpecSender == InitSpecSender /\ [][NextSender]_vars

\* CarefulResume and the detector, both constructed disabled
InitDisabled ==
    /\ InitResume
    /\ ~resume.enabled
    /\ IdlePacer
    /\ IdleHystart
    /\ IdleSender
SpecDisabled == InitDisabled /\ [][NextResume \/ NextHystart]_vars

(***************************************************************************)
(* Properties of CarefulResume (SpecResume unless said otherwise).         *)
(***************************************************************************)

\* the order Reconnaissance < Jumping < Unvalidated < Validating < SafeRetreat < Normal
Rank(tag) ==
    CASE tag = "Reconnaissance" -> 0
      [] tag = "Jumping" -> 1
      [] tag = "Unvalidated" -> 2
      [] tag = "Validating" -> 3
      [] tag = "SafeRetreat" -> 4
      [] OTHER -> 5

\* every argument tuple of on_ack / on_sent the caller may pass
AckArgs ==
    [ pn : Pns, len : Lens, rtt : RttSamples, flightsize : Flights, cwnd : Cwnds,
      initial_cwnd : InitialCwnds, now : Times ]
SentArgs ==
    [ cwnd : Cwnds, pn : Pns, rtt : RttSamples, flightsize : Flights,
      app_limited : BOOLEAN, now : Times ]
AckOut(r, a) ==
    Resume_on_ack(r, [pn |-> a.pn, len |-> a.len], a.rtt, a.flightsize, a.cwnd,
                  a.initial_cwnd, a.now)
SentOut(r, a) ==
    Resume_on_sent(r, a.cwnd, a.pn, a.rtt, a.flightsize, a.app_limited, a.now)
NoReturn(out) == out.ret_cwnd = None /\ out.ret_ssthresh = None

\* one call of CarefulResume, compared with the state before it
C1_Step ==
    resume.enabled =>
      /\ Rank(resume'.state.tag) >= Rank(resume.state.tag)
      /\ (resume'.state.tag = "SafeRetreat" /\ resume.state.tag # "SafeRetreat"
            => resume.state.tag \in {"Unvalidated", "Validating"})
      /\ (resume.state.tag = "Normal"
            => /\ resume'.state = Normal
               /\ rcall'.ret_cwnd = None
               /\ rcall'.ret_ssthresh = None)
\* C1: for an enabled CarefulResume no call moves the phase backwards in the
\* order Reconnaissance < Jumping < Unvalidated < Validating < SafeRetreat <
\* Normal; SafeRetreat is entered only from Unvalidated or Validating; and a
\* call made in Normal leaves the phase Normal and returns no window and no
\* threshold.
C1_PhaseNeverMovesBack == [][C1_Step]_vars
\* a call made in Normal, which was reached through SafeRetreat
C1_Witness ==
    /\ resume.enabled
    /\ rcall.old = "Normal"
    /\ resume.state = Normal
    /\ resume.ssthresh # None

\* the RTT window of the jump, as the claim has it and as the code has it
RttWithinInclusive(r, rtt) == r.saved.rtt \div 2 <= rtt /\ rtt <= 10 * r.saved.rtt
RttWithinExclusive(r, rtt) == r.saved.rtt \div 2 < rtt /\ rtt < 10 * r.saved.rtt

JumpDecision(r, a, out, admissible) ==
    LET acked == r.state.acked_bytes + a.len
        jump_cwnd == r.saved.cwnd \div 2
    IN IF acked < a.initial_cwnd
       THEN /\ NoReturn(out)
            /\ out.r.state = Reconnaissance(acked)
       ELSE IF jump_cwnd <= a.cwnd
       THEN /\ NoReturn(out)
            /\ out.r.state = Normal
       ELSE IF admissible
       THEN /\ out.ret_cwnd = jump_cwnd
            /\ out.ret_ssthresh = None
            /\ out.r.state = Jumping
       ELSE /\ NoReturn(out)
            /\ out.r.state = Normal

\* C2 as claimed: on_ack in Reconnaissance, once the accumulated bytes reach
\* the initial window and saved.cwnd / 2 exceeds the cwnd, returns
\* saved.cwnd / 2 and jumps for every live RTT r with
\* saved.rtt / 2 <= r <= 10 * saved.rtt, bounds included.
C2_JumpBoundsIncluded ==
    resume.enabled /\ resume.state.tag = "Reconnaissance" =>
      \A a \in AckArgs :
        JumpDecision(resume, a, AckOut(resume, a), RttWithinInclusive(resume, a.rtt))

\* C2 as amended: the jump is made exactly for saved.rtt / 2 < r < 10 * saved.rtt;
\* a live RTT equal to saved.rtt / 2 or to 10 * saved.rtt aborts to Normal
\* like one outside the window.  Before the accumulated bytes reach the
\* initial window nothing is returned and the phase stays Reconnaissance; with
\* saved.cwnd / 2 <= cwnd the phase becomes Normal and nothing is returned.
C2_JumpDecision ==
    resume.enabled /\ resume.state.tag = "Reconnaissance" =>
      \A a \in AckArgs :
        JumpDecision(resume, a, AckOut(resume, a), RttWithinExclusive(resume, a.rtt))
\* an on_ack in Reconnaissance that made the jump
C2_Witness ==
    /\ rcall.op = "on_ack"
    /\ rcall.old = "Reconnaissance"
    /\ resume.state = Jumping
    /\ rcall.ret_cwnd = resume.saved.cwnd \div 2
    /\ resume.pipesize < rcall.ret_cwnd

\* one congestion signal, by the phase it arrives in
C3_Step ==
    resume.enabled /\ rcall'.op \in {"on_ecn", "on_packetloss"} =>
      /\ rcall'.ret_ssthresh = None
      /\ CASE resume.state.tag \in {"Unvalidated", "Validating"} ->
                /\ resume' = [resume EXCEPT !.state = SafeRetreat]
                /\ rcall'.ret_cwnd = resume.pipesize \div 2
           [] resume.state.tag = "Reconnaissance" ->
                /\ resume' = [resume EXCEPT !.state = Normal]
                /\ rcall'.ret_cwnd = None
           [] OTHER ->
                /\ resume' = resume
                /\ rcall'.ret_cwnd = None
\* C3: on_ecn and on_packetloss of an enabled CarefulResume: from Unvalidated
\* or Validating the phase becomes SafeRetreat and pipesize / 2 is returned,
\* pipesize unchanged; from Reconnaissance the phase becomes Normal and
\* nothing is returned; in Jumping, SafeRetreat and Normal nothing changes and
\* nothing is returned.
C3_CongestionHandling ==
    /\ [][C3_Step]_vars
    /\ [](Resume_on_ecn(resume).r = Resume_on_packetloss(resume).r
          /\ Resume_on_ecn(resume).ret_cwnd = Resume_on_packetloss(resume).ret_cwnd)
\* a congestion signal that started the retreat with a window of pipesize / 2
C3_Witness ==
    /\ rcall.op \in {"on_ecn", "on_packetloss"}
    /\ rcall.old \in {"Unvalidated", "Validating"}
    /\ resume.state = SafeRetreat
    /\ resume.pipesize >= 3
    /\ rcall.ret_cwnd = resume.pipesize \div 2

\* every on_ack that may arrive in SafeRetreat, and the one step that sets ssthresh
C4_Ack ==
    resume.enabled /\ resume.state.tag = "SafeRetreat" =>
      \A a \in AckArgs :
        LET out == AckOut(resume, a)
            pipesize == resume.pipesize + a.len
        IN IF a.pn < resume.last_unvalidated_pkt
           THEN /\ out.r = [resume EXCEPT !.cwnd = a.cwnd, !.pipesize = pipesize]
                /\ NoReturn(out)
           ELSE /\ out.r = [resume EXCEPT !.cwnd = a.cwnd, !.pipesize = pipesize,
                                          !.ssthresh = pipesize, !.state = Normal]
                /\ out.ret_cwnd = None
                /\ out.ret_ssthresh = pipesize
C4_Step ==
    resume'.ssthresh # resume.ssthresh =>
      /\ rcall'.op = "on_ack"
      /\ resume.state.tag = "SafeRetreat"
      /\ resume'.state = Normal
      /\ resume.ssthresh = None
      /\ resume'.ssthresh = resume'.pipesize
      /\ rcall'.ret_ssthresh = resume'.ssthresh
\* C4: in SafeRetreat every on_ack adds the packet's length to pipesize;
\* below last_unvalidated_packet the phase stays SafeRetreat and nothing is
\* returned; from last_unvalidated_packet on, ssthresh becomes the updated
\* pipesize, the phase becomes Normal and (no window, pipesize) is returned;
\* ssthresh is set by no other step.
C4_SafeRetreatAck ==
    /\ [](C4_Ack /\ (resume.state.tag # "Normal" => resume.ssthresh = None))
    /\ [][C4_Step]_vars
\* the on_ack that completed the retreat
C4_Witness ==
    /\ rcall.op = "on_ack"
    /\ rcall.old = "SafeRetreat"
    /\ resume.state = Normal
    /\ resume.ssthresh = resume.pipesize
    /\ rcall.ret_ssthresh = resume.pipesize
    /\ rcall.ret_cwnd = None

\* C6 as claimed: on_sent of an enabled, not application-limited
\* CarefulResume in Reconnaissance, when the accumulated acknowledged bytes
\* have reached the initial window, saved.cwnd / 2 exceeds the cwnd and the
\* live RTT is admissible, returns saved.cwnd / 2 and the phase becomes
\* Jumping.
C6_OnSentJumps ==
    resume.enabled /\ resume.state.tag = "Reconnaissance" =>
      \A a \in SentArgs :
        ( /\ ~a.app_limited
          /\ \E initial_cwnd \in InitialCwnds : resume.state.acked_bytes >= initial_cwnd
          /\ resume.saved.cwnd \div 2 > a.cwnd
          /\ RttWithinExclusive(resume, a.rtt) )
        => /\ SentOut(resume, a).ret_cwnd = resume.saved.cwnd \div 2
           /\ SentOut(resume, a).r.state = Jumping

\* C6 as amended: on_sent in Reconnaissance never attempts the jump: whatever
\* the accumulated bytes, the cwnd and the live RTT, it returns no window and
\* leaves the phase Reconnaissance with the accumulated bytes unchanged, only
\* recording the cwnd; the jump is made by on_ack alone.
C6_OnSentNeverJumps ==
    resume.enabled /\ resume.state.tag = "Reconnaissance" =>
      \A a \in SentArgs :
        /\ SentOut(resume, a).r = [resume EXCEPT !.cwnd = a.cwnd]
        /\ NoReturn(SentOut(resume, a))
\* a not application-limited on_sent made in Reconnaissance with the accumulated
\* bytes at an initial window and saved.cwnd / 2 above the cwnd
C6_Witness ==
    /\ resume.enabled
    /\ rcall.op = "on_sent"
    /\ ~rcall.app_limited
    /\ rcall.old = "Reconnaissance"
    /\ resume.state.tag = "Reconnaissance"
    /\ \E initial_cwnd \in InitialCwnds : resume.state.acked_bytes >= initial_cwnd
    /\ resume.saved.cwnd \div 2 > resume.cwnd
    /\ rcall.ret_cwnd = None

\* C7 as claimed: on_sent with app_limited = true returns no window and
\* leaves every field, the stored cwnd included, as before the call.
C7_AppLimitedNoOp ==
    \A a \in SentArgs :
      a.app_limited => SentOut(resume, a) = Out(resume, None, None, <<>>)

\* C7 as amended: on_sent with app_limited = true returns no window, hands
\* nothing to the sink and leaves phase, pipesize, first and last unvalidated
\* packet and ssthresh as before the call; on an enabled CarefulResume the
\* stored cwnd becomes the cwnd argument.
C7_AppLimitedKeepsAllButCwnd ==
    \A a \in SentArgs :
      a.app_limited =>
        SentOut(resume, a) =
          Out(IF resume.enabled THEN [resume EXCEPT !.cwnd = a.cwnd] ELSE resume,
              None, None, <<>>)
\* an application-limited on_sent made in Unvalidated
C7_Witness ==
    /\ resume.enabled
    /\ rcall.op = "on_sent"
    /\ rcall.app_limited
    /\ rcall.old = "Unvalidated"
    /\ resume.state.tag = "Unvalidated"
    /\ rcall.ret_cwnd = None

(***************************************************************************)
(* Properties of the disabled components (SpecDisabled).                   *)
(***************************************************************************)

\* one call on the disabled components
C5_Step ==
    /\ ~resume.enabled =>
         /\ resume' = resume
         /\ rcall'.ret_cwnd = None
         /\ rcall'.ret_ssthresh = None
         /\ rcall'.ev = <<>>
    /\ ~hystart.enabled =>
         /\ hystart' = hystart
         /\ (hcall'.op = "cwnd_increase" => hcall'.ret = hcall'.increase)
\* C5: while disabled, every operation of CarefulResume leaves its state
\* unchanged and returns no window and no threshold, and every operation of
\* the slow-start exit detector leaves its state unchanged, cwnd_increase
\* returning its input.
C5_DisabledIsNoOp == [][C5_Step]_vars
\* calls were made on both disabled components
C5_Witness ==
    /\ ~resume.enabled
    /\ rcall.op = "on_packetloss"
    /\ ~hystart.enabled
    /\ hcall.op = "cwnd_increase"
    /\ hcall.increase = 8
    /\ hcall.ret = 8

(***************************************************************************)
(* Properties of the pacer (SpecPacer).                                    *)
(***************************************************************************)

\* the pacer exactly as Pacer::new left it
Fresh(pc) == pc = Pacer_new(pc.enabled, pc.start_time, pc.mtu, pc.mtu)

\* C8: an enabled pacer created at time n with packet size p: next() returns n
\* before any spend, and n + R/20 after a single spend(n, R, 10p, p).
C8_Even ==
    pacer.enabled /\ Fresh(pacer) /\ pcall.min_now = None /\ pacer.mtu > 0 =>
      LET n == pacer.start_time
          p == pacer.mtu
      IN /\ Pacer_next(pacer, 0, 0) = n
         /\ \A R \in PacerRtts :
              Pacer_next(Pacer_spend(pacer, n, R, 10 * p, p), R, 10 * p) = n + R \div 20

\* C9: for an enabled pacer, next() after any sequence of spends (cwnd > 0)
\* is never earlier than the smallest `now` passed to a spend so far.
C9_NextNotBeforeEarliestSpend ==
    pacer.enabled /\ pcall.min_now # None /\ ~pcall.panicked =>
      Pacer_next(pacer, 0, 0) >= pcall.min_now

\* C10: in every reachable pacer state, pacing enabled or disabled,
\* next_time >= last_update.
C10_NextTimeNotBeforeLastUpdate == pacer.next_time >= pacer.last_update

\* every argument tuple of spend the caller may pass
SpendArgs == [now : Times, rtt : PacerRtts, cwnd : PacerCwnds, count : PacerCounts]
SpendOut(pc, a) == Pacer_spend(pc, a.now, a.rtt, a.cwnd, a.count)

\* C11: with pacing disabled next() returns the time of the last update: the
\* construction time before any spend, and the `now` of the most recent spend
\* afterwards, whatever rtt, cwnd and byte count are passed.
C11_DisabledNextIsLastUpdate ==
    ~pacer.enabled =>
      /\ \A rtt \in PacerRtts, cwnd \in PacerCwnds :
            /\ Pacer_next(pacer, rtt, cwnd) = pacer.last_update
            /\ pcall.min_now = None => Pacer_next(pacer, rtt, cwnd) = pacer.start_time
            /\ \A a \in SpendArgs : Pacer_next(SpendOut(pacer, a), rtt, cwnd) = a.now
            /\ \A mtu \in PacketSizes :
                  Pacer_next(Pacer_set_mtu(pacer, mtu), rtt, cwnd) = pacer.last_update
\* a disabled pacer whose last spend was later than its construction
C11_Witness ==
    /\ ~pacer.enabled
    /\ pcall.min_now # None
    /\ Pacer_next(pacer, 20, 10) > pacer.start_time
    /\ pacer.next_time = pacer.start_time

\* C12: a spend whose `now` lies before the last update is accounted from that
\* earlier time: an enabled pacer created at n + R returns n + R/20 from
\* next() after spend(n, R, 10p, p).
C12_BackwardsInTime ==
    pacer.enabled /\ Fresh(pacer) /\ pcall.min_now = None /\ pacer.mtu > 0 =>
      LET p == pacer.mtu
      IN \A n \in Times, R \in PacerRtts :
           pacer.start_time = n + R =>
             Pacer_next(Pacer_spend(pacer, n, R, 10 * p, p), R, 10 * p) = n + R \div 20

\* C13: an enabled pacer never schedules a delay below the timer granularity:
\* when the delay computed for the bytes sent (the pending interval) is
\* smaller than GRANULARITY and the earlier schedule has passed, next() after
\* the spend is no later than the `now` of that spend (stated for pacers
\* constructed with a packet size above 0).
C13_NoDelayBelowGranularity ==
    pacer.enabled /\ ~pcall.panicked /\ pacer.capacity > 0 =>
      \A a \in SpendArgs :
        a.cwnd > 0 /\ pacer.iv < GRANULARITY /\ pacer.next_time <= a.now
          => Pacer_next(SpendOut(pacer, a), a.rtt, a.cwnd) <= a.now

\* C14: spend never fails: for every input, cwnd = 0, rtt = 0 and a byte
\* count of 0 included, the call completes, a division that hits the zero
\* rate falling back to the raw rtt.
C14_SpendNeverFails == ~pcall.panicked

\* C15: Pacer::new(enabled, now, m, p) is rejected when p = 0 and when
\* m < p, and accepted otherwise: no pacer exists whose packet size was 0.
C15_NewFailsFast ==
    /\ \A m \in NewSizes, p \in NewSizes : Pacer_new_panics(m, p) <=> (p = 0 \/ m < p)
    /\ pacer.capacity # 0

(***************************************************************************)
(* Properties of the slow-start exit detector (SpecHystart).               *)
(***************************************************************************)

\* every argument pair of HystartPP::on_ack the caller may pass
HystartAckArgs == [pn : Pns, rtt : HystartRtts]
HystartAckOut(h, a) == HystartPP_on_ack(h, a.pn, a.rtt)

C18_Step ==
    hystart.enabled =>
      LET closes == /\ hcall'.op = "on_ack"
                    /\ hystart.window_end # None
                    /\ hcall'.pn >= hystart.window_end
          rounds == hystart.state.rounds
      IN IF hystart.state.tag = "CSS"
         THEN /\ (closes /\ rounds + 1 = 5 => hystart'.state = CongestionAvoidance)
              /\ CASE hystart'.state.tag = "CSS" ->
                        /\ hystart'.state.baseline_min_rtt = hystart.state.baseline_min_rtt
                        /\ hystart'.state.rounds = (IF closes THEN rounds + 1 ELSE rounds)
                   [] hystart'.state.tag = "CongestionAvoidance" ->
                        \/ hcall'.op = "on_congestion"
                        \/ closes /\ rounds + 1 = 5
                   [] OTHER -> hcall'.op = "on_ack" /\ ~closes
         ELSE /\ (hystart'.state.tag = "CSS" =>
                     /\ hcall'.op = "on_ack"
                     /\ hystart.state.tag = "SlowStart"
                     /\ hystart'.state.rounds \in {0, 1})
              /\ (hystart'.state.tag = "CongestionAvoidance" =>
                     \/ hystart.state.tag = "CongestionAvoidance"
                     \/ hcall'.op = "on_congestion")
\* C18: the rounds counter changes only in ConservativeSlowStart and only by
\* +1 on an on_ack that closes the open round, the baseline being kept; the
\* phase becomes CongestionAvoidance exactly when the counter reaches 5, so
\* every ConservativeSlowStart state has 0 <= rounds <= 4 and, without a
\* congestion signal, CongestionAvoidance is not entered before that.
C18_RoundsCounter ==
    /\ [][C18_Step]_vars
    /\ [](hystart.state.tag = "CSS" => hystart.state.rounds \in 0..4)
\* the on_ack that closed the fifth round and entered CongestionAvoidance
C18_Witness ==
    /\ hystart.enabled
    /\ hcall.op = "on_ack"
    /\ hcall.old = "CSS"
    /\ hystart.state = CongestionAvoidance
    /\ hystart.window_end = None

\* C19: cwnd_increase(increase, packet_size) changes no state and returns
\* increase / 4 (integer division) when the enabled detector is in
\* ConservativeSlowStart, and increase itself in SlowStart, in
\* CongestionAvoidance and when disabled, whatever the packet size.
C19_CwndIncrease ==
    /\ [](\A increase \in Increases, max_datagram_size \in PacketSizes :
            HystartPP_cwnd_increase(hystart, increase, max_datagram_size)
              = (IF hystart.enabled /\ hystart.state.tag = "CSS"
                 THEN increase \div 4 ELSE increase))
    /\ [][hcall'.op = "cwnd_increase" =>
            /\ hystart' = hystart
            /\ hcall'.ret = (IF hystart.enabled /\ hystart.state.tag = "CSS"
                             THEN hcall'.increase \div 4 ELSE hcall'.increase)]_vars
\* cwnd_increase(3, _) in ConservativeSlowStart returned 0
C19_Witness ==
    /\ hystart.enabled
    /\ hcall.op = "cwnd_increase"
    /\ hystart.state.tag = "CSS"
    /\ hcall.increase = 3
    /\ hcall.ret = 0

(***************************************************************************)
(* PacketSender (sender.rs)                                                *)
(***************************************************************************)

\* what on_packets_acked may be called with, and what the strategy's and the
\* path-MTU discovery's own handlers may then leave
SenderAckArgs ==
    [ acked_pkts : AckBatches(sent.unacked), rtt : SenderRtts, now : SenderNows,
      after : CcAfter(cc), plpmtu : SenderMtus ]
\* the calls on_packets_acked makes, in order, from the current state
AckedLog(a) ==
    PacketSender_on_packets_acked(Sender(resume, pacer, cc), a.acked_pkts, a.rtt, a.now,
                                  a.after, a.plpmtu).log
\* where in these calls a call of one of these names was made
CallsAt(log, names) == {i \in DOMAIN log : log[i].call \in names}
\* the strategy's window when the i-th call was made: what the last
\* cc.set_cwnd before it set, or else what it was when the operation began
CwndAt(log, i) ==
    LET sets == {j \in CallsAt(log, {"cc.set_cwnd"}) : j < i}
    IN IF sets = {} THEN cc.cwnd
       ELSE log[CHOOSE j \in sets : \A k \in sets : k <= j].cwnd
\* the i-th call is resume.on_ack: it was consulted with the strategy's
\* current window and flight size, and what it proposed was applied at once
AppliedAt(log, i) ==
    LET e == log[i]
        n == IF e.ret_cwnd # None THEN i + 3 ELSE i + 1
    IN /\ e.cwnd = CwndAt(log, i)
       /\ e.arg = cc.bytes_in_flight
       /\ e.ret_cwnd # None =>
            /\ i + 2 <= Len(log)
            /\ log[i + 1].call = "cc.set_cwnd" /\ log[i + 1].cwnd = e.ret_cwnd
            /\ log[i + 2].call = "pacer.spend" /\ log[i + 2].cwnd = e.ret_cwnd
            /\ log[i + 2].arg = 0
       /\ e.ret_ssthresh # None =>
            /\ n <= Len(log)
            /\ log[n].call = "cc.set_ssthresh" /\ log[n].arg = e.ret_ssthresh

\* C20: in on_packets_acked CarefulResume.on_ack is consulted for each packet
\* of the batch in order, with the strategy's current window and flight size;
\* every window it proposes is set on the strategy and followed by a
\* zero-byte pacer spend with that window, every threshold it proposes is set
\* on the strategy; the strategy is notified exactly once per call, after all
\* of this.
C20_AckedBeforeStrategy ==
    \A a \in SenderAckArgs :
        LET log == AckedLog(a)
            consulted == SelectSeq(log, LAMBDA e : e.call = "resume.on_ack")
            notified == CallsAt(log, {"cc.on_packets_acked"})
        IN /\ Len(consulted) = Len(a.acked_pkts)
           /\ \A k \in DOMAIN consulted : consulted[k].pn = a.acked_pkts[k].pn
           /\ \A i \in CallsAt(log, {"resume.on_ack"}) : AppliedAt(log, i)
           /\ Cardinality(notified) = 1
           /\ \A i \in CallsAt(log, {"resume.on_ack", "cc.set_cwnd", "pacer.spend",
                                     "cc.set_ssthresh"}) :
                \A j \in notified : i < j

\* what on_packets_lost may be called with: what the strategy answers and
\* leaves, and what path-MTU discovery leaves
SenderLostArgs == [reduced : BOOLEAN, after : CcAfter(cc), plpmtu : SenderMtus]
LostOut(a) ==
    PacketSender_on_packets_lost(Sender(resume, pacer, cc), a.reduced, a.after, a.plpmtu)

\* C21: on_packets_lost returns exactly the strategy's window-was-reduced
\* result; the strategy handles the loss first; CarefulResume.on_packetloss is
\* invoked if and only if the strategy reported a reduction, and a retreat
\* window it proposes is set on the strategy afterwards, so that the
\* strategy's window after the call is CarefulResume's pipesize / 2; without
\* a reduction CarefulResume's phase is unchanged.
C21_LossRetreat ==
    \A a \in SenderLostArgs :
        LET st == LostOut(a)
            log == st.log
            asked == CallsAt(log, {"resume.on_packetloss"})
        IN /\ st.ret = a.reduced
           /\ log[1].call = "cc.on_packets_lost"
           /\ Cardinality(CallsAt(log, {"cc.on_packets_lost"})) = 1
           /\ Cardinality(asked) = (IF a.reduced THEN 1 ELSE 0)
           /\ \A i \in asked :
                log[i].ret_cwnd # None =>
                  /\ log[i + 1].call = "cc.set_cwnd"
                  /\ log[i + 1].cwnd = log[i].ret_cwnd
                  /\ log[i].ret_cwnd = st.resume.pipesize \div 2
                  /\ st.cc.cwnd = st.resume.pipesize \div 2
           /\ (\A i \in asked : log[i].ret_cwnd = None) =>
                CallsAt(log, {"cc.set_cwnd"}) = {}
           /\ ~a.reduced => st.resume = resume
\* a loss the strategy answered with a reduction, in Unvalidated or
\* Validating: the retreat window pipesize / 2 is the strategy's window
C21_Witness ==
    /\ scall.op = "on_packets_lost"
    /\ scall.ret = TRUE
    /\ scall.old \in {"Unvalidated", "Validating"}
    /\ resume.state = SafeRetreat
    /\ resume.pipesize >= 2
    /\ cc.cwnd = resume.pipesize \div 2

\* the outcome of leaving Unvalidated for validation, as claimed: decided by
\* pipesize against the flight size
ValidationOutcome(out, flightsize) ==
    out.r.state.tag # "Unvalidated" =>
        IF out.r.pipesize < flightsize
        THEN out.r.state = Validating /\ out.ret_cwnd = flightsize
        ELSE out.r.state = Normal /\ out.ret_cwnd = out.r.pipesize

\* C22: whenever CarefulResume leaves Unvalidated for validation, by on_sent
\* with flight_size >= cwnd, by on_sent or on_ack after the RTT has elapsed,
\* or by on_ack of a packet number >= first_unvalidated_packet, then if
\* pipesize < flight_size the phase becomes Validating and the proposed
\* window is flight_size; otherwise the phase becomes Normal and the proposed
\* window is pipesize.
C22_ValidationEntry ==
    resume.enabled /\ resume.state.tag = "Unvalidated" =>
      /\ \A a \in AckArgs : ValidationOutcome(AckOut(resume, a), a.flightsize)
      /\ \A a \in SentArgs : ValidationOutcome(SentOut(resume, a), a.flightsize)

\* a call in Unvalidated that changed nothing but what every call records
StaysUnvalidated(out) == out.ret_cwnd = None /\ out.r.state = resume.state

\* C23: the RTT-elapsed trigger of the Unvalidated phase fires only when
\* strictly more than one RTT has elapsed since Unvalidated was entered: an
\* on_sent with flight_size < cwnd, or an on_ack of a packet number below
\* first_unvalidated_packet, at a time now with now - start <= rtt returns no
\* window and leaves the phase Unvalidated.
C23_RttTriggerStrict ==
    resume.enabled /\ resume.state.tag = "Unvalidated" =>
      /\ \A a \in SentArgs :
           /\ ~a.app_limited
           /\ a.flightsize < a.cwnd
           /\ saturating_duration_since(a.now, resume.state.start) <= a.rtt
           => StaysUnvalidated(SentOut(resume, a))
      /\ \A a \in AckArgs :
           /\ a.pn < resume.first_unvalidated_pkt
           /\ saturating_duration_since(a.now, resume.state.start) <= a.rtt
           => StaysUnvalidated(AckOut(resume, a))

\* one call of CarefulResume that changed the phase: what went to the sink
C24_Step ==
    resume'.state.tag # resume.state.tag =>
      /\ Len(rcall'.ev) = 1
      /\ rcall'.ev[1].old_phase = CarefulResumePhase(resume.state)
      /\ rcall'.ev[1].new_phase = CarefulResumePhase(resume'.state)
      /\ rcall'.ev[1].trigger # "None"
\* C24: every phase transition of CarefulResume (every call after which the
\* phase differs from the phase before it, Reconnaissance -> Jumping
\* included) hands exactly one phase-transition record to the telemetry sink,
\* carrying the old phase, the new phase and the trigger.
C24_TransitionEmitsRecord == [][C24_Step]_vars

\* one call of an enabled detector, compared with the state before it
C25_Step ==
    hystart.enabled =>
      /\ hcall'.op = "on_congestion" => hystart'.state = CongestionAvoidance
      /\ hystart.state = CongestionAvoidance => hystart'.state = CongestionAvoidance
\* C25: on_congestion() on an enabled detector makes the phase
\* CongestionAvoidance from any phase, and CongestionAvoidance is never left:
\* no later on_sent, on_ack or on_congestion changes the phase, and
\* cwnd_increase returns its input from then on.
C25_CongestionAvoidanceIsFinal ==
    /\ [][C25_Step]_vars
    /\ [](hystart.enabled /\ hystart.state = CongestionAvoidance =>
            /\ \A a \in HystartAckArgs : HystartAckOut(hystart, a).state = CongestionAvoidance
            /\ \A pn \in Pns : HystartPP_on_sent(hystart, pn).state = CongestionAvoidance
            /\ \A increase \in Increases, max_datagram_size \in PacketSizes :
                 HystartPP_cwnd_increase(hystart, increase, max_datagram_size) = increase)
\* a congestion signal ended a conservative slow start
C25_Witness ==
    /\ hystart.enabled
    /\ hcall.op = "on_congestion"
    /\ hcall.old = "CSS"
    /\ hystart.state = CongestionAvoidance

(***************************************************************************)
(* The pacer's resets (SpecPacer)                                          *)
(***************************************************************************)

\* the idle condition of a spend: more than burst_duration = rtt * capacity /
\* cwnd has elapsed since last_update
IdleElapsed(pc, a) ==
    saturating_duration_since(a.now, pc.last_update) > interval(a.rtt, pc.capacity, a.cwnd)
\* the bytes used once the spent bytes are added, after an idle reset if one is due
UsedWith(pc, a) == (IF IdleElapsed(pc, a) THEN 0 ELSE pc.used) + a.count
\* the burst condition of a spend: used has reached capacity, or the bytes
\* differ from the size of the previously spent packet
BurstOver(pc, a) ==
    \/ UsedWith(pc, a) >= pc.capacity
    \/ /\ ~IdleElapsed(pc, a)
       /\ pc.last_packet_size # None
       /\ pc.last_packet_size # a.count

\* C26: burst reset of an enabled pacer: a spend(now, rtt, cwnd, bytes) after
\* which used has reached capacity, or whose bytes differ from the size of the
\* previously spent packet, leaves used = 0, last_update = now and next_time =
\* last_update + rtt * used / cwnd (used taken before the reset), so that the
\* next() that follows already returns that time; a spend where neither
\* condition holds (and no idle reset is due) leaves next_time unchanged.
C26_BurstReset ==
    pacer.enabled /\ pacer.capacity > 0 =>
      \A a \in SpendArgs :
        a.cwnd > 0 =>
          LET p == SpendOut(pacer, a)
              delay == interval(a.rtt, UsedWith(pacer, a), a.cwnd)
          IN IF BurstOver(pacer, a)
             THEN /\ p.used = 0
                  /\ p.last_update = a.now
                  /\ p.next_time = a.now + delay
                  /\ Pacer_next(p, a.rtt, a.cwnd) = a.now + delay
             ELSE IdleElapsed(pacer, a) \/ p.next_time = pacer.next_time

\* C27: idle reset of an enabled pacer: in spend(now, rtt, cwnd, bytes), if
\* more than burst_duration = rtt * capacity / cwnd has elapsed since
\* last_update, the bucket is reset to used = 0 and next_time = now (together
\* with last_update = now) before the sent bytes are added; if not more than
\* burst_duration has elapsed, used is not reset (short of a burst reset).
C27_IdleReset ==
    pacer.enabled /\ pacer.capacity > 0 =>
      \A a \in SpendArgs :
        a.cwnd > 0 =>
          LET p == SpendOut(pacer, a)
          IN IF IdleElapsed(pacer, a)
             THEN /\ p.last_update = a.now
                  /\ p.next_time = a.now
                  /\ BurstOver(pacer, a) \/ p.used = a.count
             ELSE BurstOver(pacer, a) \/ p.used = pacer.used + a.count

\* C28: in every reachable pacer state the burst capacity is BURST_PACKETS
\* (10) times the current reference packet size, also after set_mtu has
\* changed the reference packet size (for a pacer created with a positive
\* packet size).
C28_CapacityTracksMtu == pacer.capacity > 0 => pacer.capacity = 10 * pacer.mtu

\* C29: with strictly increasing packet numbers passed to on_sent, whenever
\* CarefulResume is in Validating or SafeRetreat, last_unvalidated_packet >=
\* first_unvalidated_packet; hence neither phase completes to Normal on the
\* acknowledgment of a packet sent before the first unvalidated packet.
C29_UnvalidatedRangeOrdered ==
    resume.enabled /\ resume.state.tag \in {"Validating", "SafeRetreat"} =>
      /\ resume.last_unvalidated_pkt >= resume.first_unvalidated_pkt
      /\ \A a \in AckArgs :
           a.pn < resume.first_unvalidated_pkt => AckOut(resume, a).r.state # Normal

\* one call of CarefulResume: the jump leaves Reconnaissance for good, only
\* on_ack in Reconnaissance jumps, and pipesize does not decrease
C30_Step ==
    resume.enabled =>
      /\ resume'.pipesize >= resume.pipesize
      /\ resume.state.tag # "Reconnaissance" =>
           /\ resume'.state.tag # "Reconnaissance"
           /\ resume'.state = Jumping => resume.state = Jumping
           /\ rcall'.ret_cwnd # None => resume.state.tag \in {"Unvalidated", "Validating"}
      /\ resume.state.tag = "Reconnaissance" /\ resume'.state = Jumping =>
           rcall'.op = "on_ack"
\* every on_ack that may arrive in Reconnaissance: if it jumps, by how much
C30_Jump ==
    resume.enabled /\ resume.state.tag = "Reconnaissance" =>
      /\ resume.pipesize = 0
      /\ \A a \in AckArgs :
           LET out == AckOut(resume, a)
           IN /\ out.ret_cwnd # None <=> out.r.state = Jumping
              /\ out.r.state = Jumping =>
                   /\ out.ret_cwnd = resume.saved.cwnd \div 2
                   /\ out.ret_cwnd > a.cwnd
                   /\ out.r.pipesize = a.cwnd
              /\ out.r.state # Jumping => out.r.pipesize = 0
      /\ \A a \in SentArgs : SentOut(resume, a).ret_cwnd = None
\* C30: over any sequence of calls on one CarefulResume the jump (a call
\* returning the window saved.cwnd / 2 while leaving Reconnaissance) happens
\* at most once, the returned jump window is strictly greater than the cwnd
\* argument of that call, and pipesize is 0 before the jump, equals that cwnd
\* argument right after it and never decreases afterwards.
C30_JumpOnce == [][C30_Step]_vars /\ []C30_Jump
\* the jump from a window of 1 to the window 3, with pipesize 1 after it
C30_Witness ==
    /\ rcall.op = "on_ack"
    /\ rcall.old = "Reconnaissance"
    /\ resume.state = Jumping
    /\ rcall.ret_cwnd = 3
    /\ resume.pipesize = 1

\* one spend of an enabled pacer: next() afterwards is not earlier than before
C31_Step ==
    pacer.enabled =>
      \A rtt \in PacerRtts, cwnd \in PacerCwnds :
        Pacer_next(pacer', rtt, cwnd) >= Pacer_next(pacer, rtt, cwnd)
\* every spend with cwnd > 0 the caller may make next, at any `now` and of any
\* byte count, zero included
C31_AnySpend ==
    pacer.enabled =>
      \A a \in SpendArgs :
        a.cwnd > 0 =>
          Pacer_next(SpendOut(pacer, a), a.rtt, a.cwnd) >= Pacer_next(pacer, a.rtt, a.cwnd)
Spec == SpecResume

====
